---- MODULE Spec2Model ----
(***************************************************************************)
(* A model of the net-cat chat server (src/main.go): the accept loop of    *)
(* main, one handleConnection goroutine per admitted connection, the       *)
(* shared client list, history log and active-client counter, and the     *)
(* mutex clientsMu.                                                        *)
(*                                                                         *)
(* Granularity.  Every clientsMu.Lock() is a step of its own; the critical *)
(* section up to the matching Unlock() is one step (everything it touches  *)
(* is touched only under the lock, except the per-client writers, whose    *)
(* unlocked use by sendMessage is modelled statement by statement).        *)
(* activeClients is read and written without the lock by main and by the   *)
(* handlers; its ++ and -- are modelled as a read followed by a write.     *)
(***************************************************************************)
EXTENDS Integers, Sequences, FiniteSets, TLC

\* ------------------------------------------------------------------ bounds
\* Connections the listener accepts in a run of Spec, where the handlers
\* interleave freely.
NConn == 2
\* Connections the listener accepts in a run of SpecAdmit, where a handler
\* runs from one blocking point to the next without another handler stepping.
NAdmit == 4
\* Lines other than /quit that the clients send, all sessions together.
MaxLines == 1
\* Lines other than /quit that the clients send in a run of SpecChat, all
\* sessions together.
MaxChat == 2
\* Empty usernames that the clients submit, all connections together.
MaxRetry == 1
\* Connections the listener accepts in a run of SpecFail, where a handler
\* whose connection is closed can stay in the client list while others step.
NFail == 3

\* The values the ceiling maxClients takes (10 in main.go:29; the model runs
\* the server with a small ceiling).
Ceilings == {1, 2}
\* The values the ceiling takes in SpecFail, where three sessions are in the
\* client list together.
RoomyCeilings == {2, 3}

\* Connection identities, in the order Accept returns them.
Conns == 1..NAdmit
\* broadcastMessage(nil, ...): no excluded sender.
Nil == 0

\* ------------------------------------------------------------------ text
\* A line of input is a sequence of one-character strings.
Hello == <<"h", "i">>
QuitLower == <<"/", "q", "u", "i", "t">>
QuitUpper == <<"/", "Q", "U", "I", "T">>
QuitMixed == <<"/", "Q", "u", "i", "t">>
Empty == <<>>
Blank == <<" ">>

\* The lines a client may send in the message loop.
Lines == {Hello, Empty, Blank, QuitLower, QuitUpper, QuitMixed}

\* The usernames a client may submit ("" is the empty submission).
Usernames == {"amy", ""}

\* unicode.ToLower on the alphabet of Lines.
LowerChar(ch) ==
  CASE ch = "Q" -> "q"
    [] ch = "U" -> "u"
    [] ch = "I" -> "i"
    [] ch = "T" -> "t"
    [] OTHER -> ch

\* strings.ToLower
ToLower(s) == [i \in 1..Len(s) |-> LowerChar(s[i])]

\* strings.TrimSpace: strips leading and trailing white space.
RECURSIVE TrimLeft(_)
TrimLeft(s) ==
  IF s # <<>> /\ Head(s) = " " THEN TrimLeft(Tail(s)) ELSE s

RECURSIVE TrimRight(_)
TrimRight(s) ==
  IF s # <<>> /\ s[Len(s)] = " " THEN TrimRight(SubSeq(s, 1, Len(s) - 1)) ELSE s

TrimSpace(s) == TrimRight(TrimLeft(s))

\* The test of the message loop, main.go:120.
IsQuit(s) == ToLower(s) = QuitLower

\* The test of sendMessage without the trimming.
IsBlankMessageNoTrim(s) == s = <<>>

\* The test of sendMessage, main.go:173.
IsBlankMessage(s) == TrimSpace(s) = <<>>

\* ------------------------------------------------------------------ messages
\* What is written to a connection.  kind is the format of the line, from the
\* session that emitted it, user its username, text the input line it carries,
\* seq the index of the emission within that session (it stands for the time
\* stamp, which tells two emissions of the same text apart).
Msg(k, c, u, t, n) == [kind |-> k, from |-> c, user |-> u, text |-> t, seq |-> n]


Welcome(c) == Msg("welcome", c, "", <<>>, 0)
Prompt(c) == Msg("prompt", c, "", <<>>, 0)
UsernameError(c) == Msg("error", c, "", <<>>, 0)
Rejection(c) == Msg("reject", c, "", <<>>, 0)

VARIABLES
  maxClients,     \* the global maxClients, never assigned after its initialisation
  mpc,            \* main: where the accept loop stands
  mconn,          \* main: the connection being admitted (conn)
  mtmp,           \* main: the value of activeClients read by activeClients++
  accepted,       \* the number of connections listener.Accept has returned
  pc,             \* per connection: where its handler stands
  username,       \* client.username
  line,           \* handleConnection's local variable message
  nread,          \* lines the message loop has read
  retries,        \* empty usernames submitted
  eof,            \* the client's input has ended (scanner.Scan returns false)
  closed,         \* conn.Close() has been called by the server
  dtmp,           \* the value of activeClients read by activeClients--
  clients,        \* the global clients
  lock,           \* the holder of clientsMu, 0 when free
  chatHistory,    \* the global chatHistory
  activeClients,  \* the global activeClients
  out,            \* per connection: what has been written to the connection
  wbuf,           \* per connection: the contents of client.writer's buffer
  fanout,         \* history variable: one record per broadcastMessage call
  replayed,       \* history variable: what sendChatHistory wrote to the session
  histAtReg,      \* history variable: chatHistory when the session was registered
  nReg,           \* history variable: registrations so far
  nRem            \* history variable: removals so far

mainVars == <<maxClients, mpc, mconn, mtmp, accepted>>
handlerVars == <<pc, username, line, nread, retries, eof, closed, dtmp>>
sharedVars == <<clients, lock, chatHistory, activeClients>>
ioVars == <<out, wbuf>>
ghostVars == <<fanout, replayed, histAtReg, nReg, nRem>>
vars == <<mainVars, handlerVars, sharedVars, ioVars, ghostVars>>

\* ------------------------------------------------------------------ helpers
\* The messages of the three notifications, as fmt.Sprintf builds them.
JoinMsg(c) == Msg("join", c, username[c], <<>>, 0)
LeaveMsg(c) == Msg("leave", c, username[c], <<>>, 0)
ChatMsg(c) == Msg("chat", c, username[c], line[c], nread[c])
StampMsg(c) == Msg("stamp", c, username[c], <<>>, nread[c])

\* bufio.Writer.WriteString on c's writer: the message goes to the buffer.
WriteString(w, c, m) == [w EXCEPT ![c] = Append(@, m)]

\* bufio.Writer.Flush on c's writer: the buffer goes to the connection, unless
\* the connection has been closed, in which case the write fails and nothing
\* reaches the client.
Flush(io, c) ==
  IF closed[c] THEN io
  ELSE [out |-> [io.out EXCEPT ![c] = @ \o io.wbuf[c]],
        wbuf |-> [io.wbuf EXCEPT ![c] = <<>>]]

\* c.writer.WriteString(message); c.writer.Flush()
WriteFlush(io, c, m) ==
  Flush([out |-> io.out, wbuf |-> WriteString(io.wbuf, c, m)], c)

\* The condition of broadcastMessage's loop, main.go:238.
IsRecipient(sender, c) == sender = Nil \/ c # sender

\* The loop of broadcastMessage returning at the first recipient whose
\* connection is closed (a write error that ends the loop).
RECURSIVE FanOutAbortOnFailure(_, _, _, _)
FanOutAbortOnFailure(cs, sender, m, io) ==
  IF cs = <<>> THEN io
  ELSE IF IsRecipient(sender, Head(cs)) /\ closed[Head(cs)] THEN io
  ELSE FanOutAbortOnFailure(Tail(cs), sender, m,
                            IF IsRecipient(sender, Head(cs))
                            THEN WriteFlush(io, Head(cs), m)
                            ELSE io)

\* The loop of broadcastMessage over the client list cs.
RECURSIVE FanOut(_, _, _, _)
FanOut(cs, sender, m, io) ==
  IF cs = <<>> THEN io
  ELSE FanOut(Tail(cs), sender, m,
              IF IsRecipient(sender, Head(cs)) THEN WriteFlush(io, Head(cs), m)
              ELSE io)

\* The loop of sendChatHistory over the history h.
RECURSIVE Replay(_, _, _)
Replay(h, c, io) ==
  IF h = <<>> THEN io ELSE Replay(Tail(h), c, WriteFlush(io, c, Head(h)))

\* removeClient keeping clients[:i] only: the list up to the first
\* occurrence of c.
RECURSIVE removeClientTruncate(_, _)
removeClientTruncate(cs, c) ==
  IF cs = <<>> THEN <<>>
  ELSE IF Head(cs) = c THEN <<>>
  ELSE <<Head(cs)>> \o removeClientTruncate(Tail(cs), c)

\* removeClient, main.go:263: the list without the first occurrence of c.
RECURSIVE removeClient(_, _)
removeClient(cs, c) ==
  IF cs = <<>> THEN <<>>
  ELSE IF Head(cs) = c THEN Tail(cs)
  ELSE <<Head(cs)>> \o removeClient(Tail(cs), c)

Range(s) == {s[i] : i \in 1..Len(s)}

\* The sum of f over the set S.
RECURSIVE Sum(_, _)
Sum(f, S) ==
  IF S = {} THEN 0
  ELSE LET x == CHOOSE y \in S : TRUE IN f[x] + Sum(f, S \ {x})

\* Where a handler stands once removeClient has run.
RemovedPcs == {"leave_bc_lock", "leave_bc", "leave_app_lock", "leave_app",
               "dec_read", "dec_write", "done"}

\* Handlers whose session has been taken off the client list.
Removed == {c \in Conns : pc[c] \in RemovedPcs}

\* The record kept of one broadcastMessage call.
FanOutRecord(sender, m) ==
  [msg |-> m,
   rcpts |-> {c \in Range(clients) : IsRecipient(sender, c)},
   failed |-> {c \in Range(clients) : IsRecipient(sender, c) /\ closed[c]},
   gone |-> Removed]

\* ------------------------------------------------------------------ Init
\* The state when main enters its accept loop, with the ceiling one of
\* ceilings.
InitWith(ceilings) ==
  /\ maxClients \in ceilings
  /\ mpc = "accept"
  /\ mconn = 0
  /\ mtmp = 0
  /\ accepted = 0
  /\ pc = [c \in Conns |-> "idle"]
  /\ username = [c \in Conns |-> ""]
  /\ line = [c \in Conns |-> <<>>]
  /\ nread = [c \in Conns |-> 0]
  /\ retries = [c \in Conns |-> 0]
  /\ eof = [c \in Conns |-> FALSE]
  /\ closed = [c \in Conns |-> FALSE]
  /\ dtmp = [c \in Conns |-> 0]
  /\ clients = <<>>
  /\ lock = 0
  /\ chatHistory = <<>>
  /\ activeClients = 0
  /\ out = [c \in Conns |-> <<>>]
  /\ wbuf = [c \in Conns |-> <<>>]
  /\ fanout = <<>>
  /\ replayed = [c \in Conns |-> <<>>]
  /\ histAtReg = [c \in Conns |-> <<>>]
  /\ nReg = 0
  /\ nRem = 0

Init == InitWith(Ceilings)

\* ------------------------------------------------------------------ main
\* main.go:66-76: Accept returns a connection while the counter is at the
\* ceiling: the rejection text is written and the connection closed.
AcceptReject(n) ==
  /\ mpc = "accept"
  /\ accepted < n
  /\ activeClients >= maxClients
  /\ accepted' = accepted + 1
  /\ out' = [out EXCEPT ![accepted + 1] = Append(@, Rejection(accepted + 1))]
  /\ closed' = [closed EXCEPT ![accepted + 1] = TRUE]
  /\ pc' = [pc EXCEPT ![accepted + 1] = "rejected"]
  /\ UNCHANGED <<maxClients, mpc, mconn, mtmp, username, line, nread, retries,
                 eof, dtmp, sharedVars, wbuf, ghostVars>>

\* main.go:66-72: Accept returns a connection and the admission test passes.
AcceptAdmit(n) ==
  /\ mpc = "accept"
  /\ accepted < n
  /\ ~(activeClients >= maxClients)
  /\ accepted' = accepted + 1
  /\ mconn' = accepted + 1
  /\ mpc' = "inc_read"
  /\ UNCHANGED <<maxClients, mtmp, handlerVars, sharedVars, ioVars, ghostVars>>

\* main.go:78, activeClients++: the read.
IncRead ==
  /\ mpc = "inc_read"
  /\ mtmp' = activeClients
  /\ mpc' = "inc_write"
  /\ UNCHANGED <<maxClients, mconn, accepted, handlerVars, sharedVars, ioVars,
                 ghostVars>>

\* main.go:78-79, activeClients++: the write; then go handleConnection(conn).
IncWrite ==
  /\ mpc = "inc_write"
  /\ activeClients' = mtmp + 1
  /\ pc' = [pc EXCEPT ![mconn] = "start"]
  /\ mpc' = "accept"
  /\ UNCHANGED <<maxClients, mconn, mtmp, accepted, username, line, nread,
                 retries, eof, closed, dtmp, clients, lock, chatHistory, ioVars,
                 ghostVars>>

\* ------------------------------------------------------------------ handler
\* main.go:99 and 139: the banner, then the username prompt.
SendWelcome(c) ==
  /\ pc[c] = "start"
  /\ out' = [out EXCEPT ![c] = @ \o <<Welcome(c), Prompt(c)>>]
  /\ pc' = [pc EXCEPT ![c] = "username"]
  /\ UNCHANGED <<mainVars, username, line, nread, retries, eof, closed, dtmp,
                 sharedVars, wbuf, ghostVars>>

\* getUsername, main.go:141-149: a line is read, one of names.  An empty one
\* is answered by the error text and a new prompt (the recursive call); any
\* other line is the username.
GetUsername(c, names) ==
  /\ pc[c] = "username"
  /\ \E u \in names :
       IF u = ""
       THEN /\ Sum(retries, Conns) < MaxRetry
            /\ retries' = [retries EXCEPT ![c] = @ + 1]
            /\ out' = [out EXCEPT ![c] = @ \o <<UsernameError(c), Prompt(c)>>]
            /\ UNCHANGED <<username, pc>>
       ELSE /\ username' = [username EXCEPT ![c] = u]
            /\ pc' = [pc EXCEPT ![c] = "reg_lock"]
            /\ UNCHANGED <<retries, out>>
  /\ UNCHANGED <<mainVars, line, nread, eof, closed, dtmp, sharedVars, wbuf,
                 ghostVars>>

\* getUsername, main.go:142 and 151: the stream ends during the prompt;
\* the username is "unknown" and the handler goes on.
GetUsernameEOF(c) ==
  /\ pc[c] = "username"
  /\ eof' = [eof EXCEPT ![c] = TRUE]
  /\ username' = [username EXCEPT ![c] = "unknown"]
  /\ pc' = [pc EXCEPT ![c] = "reg_lock"]
  /\ UNCHANGED <<mainVars, line, nread, retries, closed, dtmp, sharedVars,
                 ioVars, ghostVars>>

\* Where a handler waiting for clientsMu stands once it holds it.
Locked(p) ==
  CASE p = "reg_lock" -> "reg"
    [] p = "join_bc_lock" -> "join_bc"
    [] p = "join_app_lock" -> "join_app"
    [] p = "hist_lock" -> "hist"
    [] p = "msg_bc_lock" -> "msg_bc"
    [] p = "msg_app_lock" -> "msg_app"
    [] p = "rm_lock" -> "rm"
    [] p = "leave_bc_lock" -> "leave_bc"
    [] p = "leave_app_lock" -> "leave_app"

LockSites == {"reg_lock", "join_bc_lock", "join_app_lock", "hist_lock",
              "msg_bc_lock", "msg_app_lock", "rm_lock", "leave_bc_lock",
              "leave_app_lock"}

\* clientsMu.Lock(), at each of its call sites.
Lock(c) ==
  /\ pc[c] \in LockSites
  /\ lock = 0
  /\ lock' = c
  /\ pc' = [pc EXCEPT ![c] = Locked(pc[c])]
  /\ UNCHANGED <<mainVars, username, line, nread, retries, eof, closed, dtmp,
                 clients, chatHistory, activeClients, ioVars, ghostVars>>

\* handleConnection, main.go:109-110: the session joins the client list.
Register(c) ==
  /\ pc[c] = "reg"
  /\ clients' = Append(clients, c)
  /\ lock' = 0
  /\ histAtReg' = [histAtReg EXCEPT ![c] = chatHistory]
  /\ nReg' = nReg + 1
  /\ pc' = [pc EXCEPT ![c] = "join_bc_lock"]
  /\ UNCHANGED <<mainVars, username, line, nread, retries, eof, closed, dtmp,
                 chatHistory, activeClients, ioVars, fanout, replayed, nRem>>

\* broadcastMessage(sender, m), main.go:233-243, from the handler of c.
broadcastMessage(c, sender, m, next) ==
  /\ LET io == FanOut(clients, sender, m, [out |-> out, wbuf |-> wbuf])
     IN /\ out' = io.out
        /\ wbuf' = io.wbuf
  /\ fanout' = Append(fanout, FanOutRecord(sender, m))
  /\ lock' = 0
  /\ pc' = [pc EXCEPT ![c] = next]
  /\ UNCHANGED <<mainVars, username, line, nread, retries, eof, closed, dtmp,
                 clients, chatHistory, activeClients, replayed, histAtReg,
                 nReg, nRem>>

\* The append to chatHistory without the clientsMu.Unlock() after it.
appendHistoryNoUnlock(c, m, next) ==
  /\ chatHistory' = Append(chatHistory, m)
  /\ pc' = [pc EXCEPT ![c] = next]
  /\ line' = [line EXCEPT ![c] = <<>>]
  /\ UNCHANGED <<mainVars, username, nread, retries, eof, closed, dtmp,
                 clients, lock, activeClients, ioVars, ghostVars>>

\* chatHistory = append(chatHistory, m) under the lock, from the handler of c.
appendHistory(c, m, next) ==
  /\ chatHistory' = Append(chatHistory, m)
  /\ lock' = 0
  /\ pc' = [pc EXCEPT ![c] = next]
  /\ line' = [line EXCEPT ![c] = <<>>]
  /\ UNCHANGED <<mainVars, username, nread, retries, eof, closed, dtmp,
                 clients, activeClients, ioVars, ghostVars>>

\* notifyJoin, main.go:155-156.
NotifyJoinBroadcast(c) ==
  /\ pc[c] = "join_bc"
  /\ broadcastMessage(c, c, JoinMsg(c), "join_app_lock")

\* notifyJoin, main.go:157-159.
NotifyJoinAppend(c) ==
  /\ pc[c] = "join_app"
  /\ appendHistory(c, JoinMsg(c), "hist_lock")

\* sendChatHistory returning with clientsMu still held.
sendChatHistoryNoUnlock(c) ==
  /\ pc[c] = "hist"
  /\ LET io == Replay(chatHistory, c, [out |-> out, wbuf |-> wbuf])
     IN /\ out' = io.out
        /\ wbuf' = io.wbuf
  /\ replayed' = [replayed EXCEPT ![c] = chatHistory]
  /\ pc' = [pc EXCEPT ![c] = "read"]
  /\ UNCHANGED <<mainVars, username, line, nread, retries, eof, closed, dtmp,
                 clients, lock, chatHistory, activeClients, fanout, histAtReg,
                 nReg, nRem>>

\* sendChatHistory, main.go:245-252.
sendChatHistory(c) ==
  /\ pc[c] = "hist"
  /\ LET io == Replay(chatHistory, c, [out |-> out, wbuf |-> wbuf])
     IN /\ out' = io.out
        /\ wbuf' = io.wbuf
  /\ replayed' = [replayed EXCEPT ![c] = chatHistory]
  /\ lock' = 0
  /\ pc' = [pc EXCEPT ![c] = "read"]
  /\ UNCHANGED <<mainVars, username, line, nread, retries, eof, closed, dtmp,
                 clients, chatHistory, activeClients, fanout, histAtReg, nReg,
                 nRem>>

\* The message loop without sendMessage's test for a blank message.
DispatchNoBlank(l) ==
  IF IsQuit(l) THEN "close" ELSE "msg_bc_lock"

\* Where the message loop goes with the line l: main.go:120 and 173.
Dispatch(l) ==
  IF IsQuit(l) THEN "close"
  ELSE IF IsBlankMessage(l) THEN "blank_write"
  ELSE "msg_bc_lock"

\* The message loop, main.go:117-124: a line is read, one of lines, while the
\* clients have sent fewer than budget lines other than /quit.  On /quit the
\* loop ends; any other line goes to sendMessage, which keeps it (message)
\* only when it is not blank.
ScanLineUpTo(c, lines, budget) ==
  /\ pc[c] = "read"
  /\ ~eof[c]
  /\ \E l \in lines :
       /\ Dispatch(l) # "close" => Sum(nread, Conns) < budget
       /\ line' = [line EXCEPT ![c] = IF Dispatch(l) = "msg_bc_lock" THEN l ELSE <<>>]
       /\ nread' = [nread EXCEPT ![c] = IF Dispatch(l) = "close" THEN @ ELSE @ + 1]
       /\ pc' = [pc EXCEPT ![c] = Dispatch(l)]
  /\ UNCHANGED <<mainVars, username, retries, eof, closed, dtmp, sharedVars,
                 ioVars, ghostVars>>

ScanLine(c, lines) == ScanLineUpTo(c, lines, MaxLines)

\* The message loop, main.go:117: the stream has ended or failed.
ScanEOF(c) ==
  /\ pc[c] = "read"
  /\ pc' = [pc EXCEPT ![c] = "close"]
  /\ UNCHANGED <<mainVars, username, line, nread, retries, eof, closed, dtmp,
                 sharedVars, ioVars, ghostVars>>

\* sender.writer.WriteString(msg), outside the lock, then to pc next.
senderWrite(c, m, next) ==
  /\ wbuf' = WriteString(wbuf, c, m)
  /\ pc' = [pc EXCEPT ![c] = next]
  /\ UNCHANGED <<mainVars, username, line, nread, retries, eof, closed, dtmp,
                 sharedVars, out, ghostVars>>

\* sender.writer.Flush(), outside the lock, then to pc next.
senderFlush(c, next) ==
  /\ LET io == Flush([out |-> out, wbuf |-> wbuf], c)
     IN /\ out' = io.out
        /\ wbuf' = io.wbuf
  /\ pc' = [pc EXCEPT ![c] = next]
  /\ UNCHANGED <<mainVars, username, line, nread, retries, eof, closed, dtmp,
                 sharedVars, ghostVars>>

\* sendMessage with a blank message, main.go:175-176.
BlankWrite(c) ==
  /\ pc[c] = "blank_write"
  /\ senderWrite(c, StampMsg(c), "blank_flush")

\* sendMessage with a blank message, main.go:177-178.
BlankFlush(c) ==
  /\ pc[c] = "blank_flush"
  /\ senderFlush(c, "read")

\* sendMessage, main.go:180-181.
SendMessageBroadcast(c) ==
  /\ pc[c] = "msg_bc"
  /\ broadcastMessage(c, c, ChatMsg(c), "echo_write")

\* sendMessage, main.go:184.
EchoWrite(c) ==
  /\ pc[c] = "echo_write"
  /\ senderWrite(c, ChatMsg(c), "echo_flush")

\* sendMessage, main.go:185.
EchoFlush(c) ==
  /\ pc[c] = "echo_flush"
  /\ senderFlush(c, "msg_app_lock")

\* sendMessage, main.go:187-189.
SendMessageAppend(c) ==
  /\ pc[c] = "msg_app"
  /\ appendHistory(c, ChatMsg(c), "read")

\* handleConnection, main.go:127.
Close(c) ==
  /\ pc[c] = "close"
  /\ closed' = [closed EXCEPT ![c] = TRUE]
  /\ pc' = [pc EXCEPT ![c] = "rm_lock"]
  /\ UNCHANGED <<mainVars, username, line, nread, retries, eof, dtmp,
                 sharedVars, ioVars, ghostVars>>

\* handleConnection, main.go:129-131.
Remove(c) ==
  /\ pc[c] = "rm"
  /\ clients' = removeClient(clients, c)
  /\ lock' = 0
  /\ nRem' = nRem + 1
  /\ pc' = [pc EXCEPT ![c] = "leave_bc_lock"]
  /\ UNCHANGED <<mainVars, username, line, nread, retries, eof, closed, dtmp,
                 chatHistory, activeClients, ioVars, fanout, replayed,
                 histAtReg, nReg>>

\* notifyLeave, main.go:163-164.
NotifyLeaveBroadcast(c) ==
  /\ pc[c] = "leave_bc"
  /\ broadcastMessage(c, Nil, LeaveMsg(c), "leave_app_lock")

\* notifyLeave, main.go:165-167.
NotifyLeaveAppend(c) ==
  /\ pc[c] = "leave_app"
  /\ appendHistory(c, LeaveMsg(c), "dec_read")

\* handleConnection, main.go:135, activeClients--: the read.
DecRead(c) ==
  /\ pc[c] = "dec_read"
  /\ dtmp' = [dtmp EXCEPT ![c] = activeClients]
  /\ pc' = [pc EXCEPT ![c] = "dec_write"]
  /\ UNCHANGED <<mainVars, username, line, nread, retries, eof, closed,
                 sharedVars, ioVars, ghostVars>>

\* handleConnection, main.go:135, activeClients--: the write.
DecWrite(c) ==
  /\ pc[c] = "dec_write"
  /\ activeClients' = dtmp[c] - 1
  /\ pc' = [pc EXCEPT ![c] = "done"]
  /\ UNCHANGED <<mainVars, username, line, nread, retries, eof, closed, dtmp,
                 clients, lock, chatHistory, ioVars, ghostVars>>

handleConnection(c) ==
  \/ SendWelcome(c)
  \/ GetUsername(c, Usernames)
  \/ GetUsernameEOF(c)
  \/ Lock(c)
  \/ Register(c)
  \/ NotifyJoinBroadcast(c)
  \/ NotifyJoinAppend(c)
  \/ sendChatHistory(c)
  \/ ScanLine(c, Lines)
  \/ ScanEOF(c)
  \/ BlankWrite(c)
  \/ BlankFlush(c)
  \/ SendMessageBroadcast(c)
  \/ EchoWrite(c)
  \/ EchoFlush(c)
  \/ SendMessageAppend(c)
  \/ Close(c)
  \/ Remove(c)
  \/ NotifyLeaveBroadcast(c)
  \/ NotifyLeaveAppend(c)
  \/ DecRead(c)
  \/ DecWrite(c)

Next ==
  \/ AcceptReject(NConn)
  \/ AcceptAdmit(NConn)
  \/ IncRead
  \/ IncWrite
  \/ \E c \in Conns : handleConnection(c)

Spec == Init /\ [][Next]_vars

\* The handler of a client that submits a username and then sends /quit or
\* ends its input.
handleQuiet(c) ==
  \/ SendWelcome(c)
  \/ GetUsername(c, Usernames \ {""})
  \/ Lock(c)
  \/ Register(c)
  \/ NotifyJoinBroadcast(c)
  \/ NotifyJoinAppend(c)
  \/ sendChatHistory(c)
  \/ ScanLine(c, {QuitLower})
  \/ ScanEOF(c)
  \/ Close(c)
  \/ Remove(c)
  \/ NotifyLeaveBroadcast(c)
  \/ NotifyLeaveAppend(c)
  \/ DecRead(c)
  \/ DecWrite(c)

\* Where a handler is blocked on its client's input, has not started, has
\* ended, or stands in the unlocked activeClients--.
Resting == {"idle", "rejected", "start", "username", "read", "dec_read",
            "dec_write", "done"}

\* SpecAdmit: NAdmit connections of clients that do not chat; main steps at
\* any time, and a handler steps only while every other handler rests, so
\* that the join and the leave of a session each run without another handler
\* stepping in between.  Every behaviour of SpecAdmit is a behaviour of the
\* server: the restriction is on the clients' input and on the scheduler.
NextAdmit ==
  \/ AcceptReject(NAdmit)
  \/ AcceptAdmit(NAdmit)
  \/ IncRead
  \/ IncWrite
  \/ \E c \in Conns :
       /\ \A d \in Conns \ {c} : pc[d] \in Resting
       /\ handleQuiet(c)

SpecAdmit == Init /\ [][NextAdmit]_vars

\* SpecQuit: the server with NConn clients that never drop their connection:
\* each submits a username and ends its session by /quit.
handlePolite(c) ==
  \/ SendWelcome(c)
  \/ GetUsername(c, Usernames)
  \/ Lock(c)
  \/ Register(c)
  \/ NotifyJoinBroadcast(c)
  \/ NotifyJoinAppend(c)
  \/ sendChatHistory(c)
  \/ ScanLine(c, Lines)
  \/ BlankWrite(c)
  \/ BlankFlush(c)
  \/ SendMessageBroadcast(c)
  \/ EchoWrite(c)
  \/ EchoFlush(c)
  \/ SendMessageAppend(c)
  \/ Close(c)
  \/ Remove(c)
  \/ NotifyLeaveBroadcast(c)
  \/ NotifyLeaveAppend(c)
  \/ DecRead(c)
  \/ DecWrite(c)

NextQuit ==
  \/ AcceptReject(NConn)
  \/ AcceptAdmit(NConn)
  \/ IncRead
  \/ IncWrite
  \/ \E c \in Conns : handlePolite(c)

SpecQuit == Init /\ [][NextQuit]_vars

\* SpecFail: NFail clients that submit a username, send hi or nothing, and
\* end their session by /quit or by closing the stream.
handleFail(c) ==
  \/ SendWelcome(c)
  \/ GetUsername(c, Usernames \ {""})
  \/ Lock(c)
  \/ Register(c)
  \/ NotifyJoinBroadcast(c)
  \/ NotifyJoinAppend(c)
  \/ sendChatHistory(c)
  \/ ScanLine(c, {Hello, QuitLower})
  \/ ScanEOF(c)
  \/ SendMessageBroadcast(c)
  \/ EchoWrite(c)
  \/ EchoFlush(c)
  \/ SendMessageAppend(c)
  \/ Close(c)
  \/ Remove(c)
  \/ NotifyLeaveBroadcast(c)
  \/ NotifyLeaveAppend(c)
  \/ DecRead(c)
  \/ DecWrite(c)

\* Where a handler rests in SpecFail: as in SpecAdmit, and also between
\* conn.Close() and the clientsMu.Lock() of the removal (main.go:127-129),
\* where its connection is closed and its session still in the client list.
RestingOrClosed == Resting \cup {"rm_lock"}

\* main steps at any time, and a handler steps only while every other handler
\* rests.  Every behaviour of SpecFail is a behaviour of the server.
NextFail ==
  \/ AcceptReject(NFail)
  \/ AcceptAdmit(NFail)
  \/ IncRead
  \/ IncWrite
  \/ \E c \in Conns :
       /\ \A d \in Conns \ {c} : pc[d] \in RestingOrClosed
       /\ handleFail(c)

SpecFail == InitWith(RoomyCeilings) /\ [][NextFail]_vars

\* SpecChat: NConn clients that submit a username, send hi up to MaxChat
\* times between them, and end their session by /quit; the handlers
\* interleave freely.
handleChat(c) ==
  \/ SendWelcome(c)
  \/ GetUsername(c, Usernames \ {""})
  \/ Lock(c)
  \/ Register(c)
  \/ NotifyJoinBroadcast(c)
  \/ NotifyJoinAppend(c)
  \/ sendChatHistory(c)
  \/ ScanLineUpTo(c, {Hello, QuitLower}, MaxChat)
  \/ SendMessageBroadcast(c)
  \/ EchoWrite(c)
  \/ EchoFlush(c)
  \/ SendMessageAppend(c)
  \/ Close(c)
  \/ Remove(c)
  \/ NotifyLeaveBroadcast(c)
  \/ NotifyLeaveAppend(c)
  \/ DecRead(c)
  \/ DecWrite(c)

NextChat ==
  \/ AcceptReject(NConn)
  \/ AcceptAdmit(NConn)
  \/ IncRead
  \/ IncWrite
  \/ \E c \in Conns : handleChat(c)

SpecChat == Init /\ [][NextChat]_vars

\* The steps of a handler that do not wait for the client: everything but
\* scanner.Scan().
Progress(c) ==
  \/ SendWelcome(c)
  \/ Lock(c)
  \/ Register(c)
  \/ NotifyJoinBroadcast(c)
  \/ NotifyJoinAppend(c)
  \/ sendChatHistory(c)
  \/ SendMessageBroadcast(c)
  \/ EchoWrite(c)
  \/ EchoFlush(c)
  \/ SendMessageAppend(c)
  \/ Close(c)
  \/ Remove(c)
  \/ NotifyLeaveBroadcast(c)
  \/ NotifyLeaveAppend(c)
  \/ DecRead(c)
  \/ DecWrite(c)

\* SpecLive: NConn clients that submit a username, send hi or nothing, and
\* end their session by /quit or by closing the stream; the handlers
\* interleave freely.
handleLive(c) ==
  \/ GetUsername(c, Usernames \ {""})
  \/ ScanLine(c, {Hello, QuitLower})
  \/ ScanEOF(c)
  \/ Progress(c)

NextLive ==
  \/ AcceptReject(NConn)
  \/ AcceptAdmit(NConn)
  \/ IncRead
  \/ IncWrite
  \/ \E c \in Conns : handleLive(c)

\* The connections that a run of NConn connections accepts.
Sessions == 1..NConn

\* The scheduler runs every goroutine that can take a step: weak fairness of
\* the steps that do not wait for input.  (A handler at clientsMu.Lock() can
\* step whenever the lock is free; the clients' input is bounded, so the
\* lock is not taken again and again for ever.)
Fairness ==
  \A c \in Sessions : WF_vars(Progress(c))

SpecLive == Init /\ [][NextLive]_vars /\ Fairness

\* ------------------------------------------------------------------ properties
\* Positions of a handler, by phase of the session.
JoiningPcs == {"join_bc_lock", "join_bc", "join_app_lock", "join_app",
               "hist_lock", "hist"}
LoopPcs == {"read", "blank_write", "blank_flush", "msg_bc_lock", "msg_bc",
            "echo_write", "echo_flush", "msg_app_lock", "msg_app"}
ClosingPcs == {"close", "rm_lock", "rm"}

\* The session of c has been through sendChatHistory.
HasReplayed(c) == pc[c] \in LoopPcs \cup ClosingPcs \cup RemovedPcs

\* The number of times m occurs in the sequence q.
Count(q, m) == Cardinality({i \in 1..Len(q) : q[i] = m})

\* The positions of m in the sequence q.
Positions(q, m) == {i \in 1..Len(q) : q[i] = m}

\* Messages that sessions emit to one another.
IsEmitted(m) == m.kind \in {"join", "leave", "chat"}

\* m comes before n in the sequence q.
Before(q, m, n) ==
  \E i \in Positions(q, m) : \E j \in Positions(q, n) : i < j

\* The messages broadcast so far, in the order of their fan-outs.
Broadcasts == [k \in 1..Len(fanout) |-> fanout[k].msg]

\* C1: the history replay of a session is exactly the sequence of messages
\* that were in the history log when the session was registered.
C1_ReplayIsHistoryAtRegistration ==
  \A c \in Conns : HasReplayed(c) => replayed[c] = histAtReg[c]

\* C2: no message emitted by another session reaches a session twice, live
\* broadcast and history replay taken together.
C2_NoDuplicateDelivery ==
  \A c \in Conns : \A i \in 1..Len(out[c]) :
    (IsEmitted(out[c][i]) /\ out[c][i].from # c) => Count(out[c], out[c][i]) <= 1

\* C3: once a message emitted by another session is in the history log and a
\* session that stays connected has finished its join, the session has
\* received the message.
C3_NoMissedMessage ==
  \A c \in Conns :
    (pc[c] \in LoopPcs /\ ~closed[c]) =>
      \A i \in 1..Len(chatHistory) :
        chatHistory[i].from # c => Count(out[c], chatHistory[i]) >= 1

\* C4: a chat message reaches exactly once every other session that was in
\* the client list at its fan-out, never a session removed before it, and its
\* sender exactly once, by the direct echo.
C4_ChatDeliveredExactlyOnce ==
  \A k \in 1..Len(fanout) :
    LET f == fanout[k] IN
    f.msg.kind = "chat" =>
      /\ \A c \in f.rcpts : Count(out[c], f.msg) = 1
      /\ \A c \in f.gone : Count(out[c], f.msg) = 0
      /\ f.msg.from \notin f.rcpts
      /\ Count(out[f.msg.from], f.msg) <= 1
      /\ pc[f.msg.from] \notin {"echo_write", "echo_flush"} =>
           Count(out[f.msg.from], f.msg) = 1

\* C5: the history log holds the messages in the order of their fan-outs.
C5_HistoryOrderIsBroadcastOrder ==
  \A i, j \in 1..Len(chatHistory) :
    i < j => Before(Broadcasts, chatHistory[i], chatHistory[j])

\* C6: the client list never holds more sessions than the ceiling, and a
\* rejected connection gets the rejection text, is closed and never joins it.
C6_RegistryWithinCeiling ==
  /\ Len(clients) <= maxClients
  /\ \A c \in Conns :
       pc[c] = "rejected" =>
         /\ c \notin Range(clients)
         /\ out[c] = <<Rejection(c)>>
         /\ closed[c]

\* The spellings of /quit that the clients send.
QuitLines == {QuitLower, QuitUpper, QuitMixed}

\* The handler of c has finished notifyLeave.
HasLeft(c) == pc[c] \in {"dec_read", "dec_write", "done"}

\* The fan-outs of the leave notice of c.
LeaveFanOuts(c) == {k \in 1..Len(fanout) : fanout[k].msg = LeaveMsg(c)}

\* C7: a /quit line in any casing is never broadcast or logged as a chat
\* message, and the session that sent it leaves the client list with exactly
\* one leave notice: one in the history log, and one received by every
\* session that was in the client list when the notice was broadcast.
C7_QuitLeavesExactlyOnce ==
  /\ \A i \in 1..Len(chatHistory) :
       chatHistory[i].kind = "chat" => chatHistory[i].text \notin QuitLines
  /\ \A k \in 1..Len(fanout) :
       fanout[k].msg.kind = "chat" => fanout[k].msg.text \notin QuitLines
  /\ \A c \in Conns :
       HasLeft(c) =>
         /\ c \notin Range(clients)
         /\ Count(chatHistory, LeaveMsg(c)) = 1
         /\ Cardinality(LeaveFanOuts(c)) = 1
         /\ \A k \in LeaveFanOuts(c) : \A d \in fanout[k].rcpts :
              Count(out[d], LeaveMsg(c)) = 1

\* A line made of white space only.
AllSpaces(t) == \A i \in 1..Len(t) : t[i] = " "

\* A message that a blank input line gave rise to.
FromBlank(m) == m.kind = "stamp" \/ (m.kind = "chat" /\ AllSpaces(m.text))

\* C8: nothing in the history log, nothing broadcast and nothing delivered
\* to a session other than the sender comes from an empty or
\* white-space-only input line.
C8_BlankNeverEmitted ==
  /\ \A i \in 1..Len(chatHistory) : ~FromBlank(chatHistory[i])
  /\ \A k \in 1..Len(fanout) : ~FromBlank(fanout[k].msg)
  /\ \A c \in Conns : \A i \in 1..Len(out[c]) :
       out[c][i].from # c => ~FromBlank(out[c][i])

\* A session has sent a blank line, sendMessage has handled it, and another
\* session is in the client list.
C8_Witness ==
  \E c \in Conns :
    /\ pc[c] = "read"
    /\ Count(out[c], StampMsg(c)) = 1
    /\ Len(clients) = 2

\* C9: the replay of a session that registered after another session's chat
\* line was logged holds that session's join notice before the chat line, and
\* no replay holds the replaying session's own join notice.
C9_ReplayBeforeOwnJoinNotice ==
  \A b \in Conns :
    HasReplayed(b) =>
      /\ Count(replayed[b], JoinMsg(b)) = 0
      /\ \A i \in 1..Len(histAtReg[b]) :
           (histAtReg[b][i].kind = "chat" /\ histAtReg[b][i].from # b) =>
             Before(replayed[b], JoinMsg(histAtReg[b][i].from), histAtReg[b][i])

\* Where the handler of a session that is in the client list stands.
RegisteredPcs == JoiningPcs \cup LoopPcs \cup ClosingPcs

\* C10: the client list holds no session twice, holds exactly the sessions
\* between their registration and their removal, and its length is the
\* number of registrations minus the number of removals.
C10_RegistryMembership ==
  /\ \A i, j \in 1..Len(clients) : i # j => clients[i] # clients[j]
  /\ \A c \in Conns : c \in Range(clients) <=> pc[c] \in RegisteredPcs
  /\ Len(clients) = nReg - nRem
  /\ Len(clients) <= nReg

\* Two sessions have registered and the first of the list has been removed.
C10_Witness ==
  /\ nReg = 2
  /\ nRem = 1
  /\ clients = <<2>>

\* C11: a session is in the client list only once its history replay is
\* done, and nothing that another session appended to the history log after
\* the registration is in the replay: registration and replay are one
\* critical section.
C11_ReplayBeforeRegistration ==
  \A c \in Conns :
    /\ c \in Range(clients) => HasReplayed(c)
    /\ HasReplayed(c) =>
         \A i \in (Len(histAtReg[c]) + 1)..Len(replayed[c]) :
           replayed[c][i].from = c

\* Connections that were admitted and whose handler has not finished.
LiveHandlers == {c \in Conns : pc[c] \notin {"idle", "rejected", "done"}}

\* C12: the counter activeClients is the number of admitted connections whose
\* handler has not finished its teardown; it is never negative, and it is 0
\* once every admitted connection has been torn down.
C12_CounterCountsLiveHandlers ==
  /\ activeClients = Cardinality(LiveHandlers)
  /\ activeClients >= 0
  /\ (mpc = "accept" /\ LiveHandlers = {}) => activeClients = 0

\* C13: the leave notice of a session is fanned out after the session was
\* taken off the client list, reaches every session that is in the client
\* list at that fan-out and never the leaving session, and is in the history
\* log before the handler decrements the counter.
C13_LeaveAfterRemoval ==
  /\ \A k \in 1..Len(fanout) :
       LET f == fanout[k] IN
       f.msg.kind = "leave" =>
         /\ f.msg.from \notin f.rcpts
         /\ \A d \in f.rcpts : Count(out[d], f.msg) >= 1
         /\ Count(out[f.msg.from], f.msg) = 0
  /\ \A c \in Conns :
       /\ pc[c] \in {"leave_bc_lock", "leave_bc"} => c \notin Range(clients)
       /\ pc[c] \in {"leave_app_lock", "leave_app"} => LeaveFanOuts(c) # {}
       /\ HasLeft(c) =>
            /\ LeaveFanOuts(c) # {}
            /\ Count(chatHistory, LeaveMsg(c)) >= 1

\* The fan-outs of the join notice of c.
JoinFanOuts(c) == {k \in 1..Len(fanout) : fanout[k].msg = JoinMsg(c)}

\* C14: a connection has a session (is in the client list, has a join notice
\* fanned out or logged) only if a non-empty username line was read from it;
\* an empty submission is answered by a new prompt; a connection whose stream
\* ended during the prompt never gets a session.
C14_SessionOnlyWithUsername ==
  \A c \in Conns :
    /\ pc[c] = "username" => Count(out[c], Prompt(c)) = retries[c] + 1
    /\ pc[c] \in RegisteredPcs \cup RemovedPcs => username[c] # ""
    /\ eof[c] =>
         /\ c \notin Range(clients)
         /\ JoinFanOuts(c) = {}
         /\ Count(chatHistory, JoinMsg(c)) = 0

\* Where a handler writes to its own client's writer without holding
\* clientsMu (sendMessage, main.go:176-177 and 184-185).
UnlockedWritePcs == {"blank_write", "blank_flush", "echo_write", "echo_flush"}

\* Where a handler is inside the loop of broadcastMessage.
FanOutPcs == {"join_bc", "msg_bc", "leave_bc"}

\* The sender that the broadcastMessage call of the handler of d excludes.
ExcludedSender(d) == IF pc[d] = "leave_bc" THEN Nil ELSE d

\* C18: no two handlers are at the same time in code that writes to or
\* flushes the writer of the same client.
C18_WriterExclusive ==
  \A c, d \in Conns :
    (c # d /\ pc[c] \in UnlockedWritePcs /\ pc[d] \in FanOutPcs) =>
      ~(c \in Range(clients) /\ IsRecipient(ExcludedSender(d), c))

\* C15 (as stated): an empty or white-space-only line changes nothing: no
\* session, the sender included, is written anything for it, and nothing in
\* the history log comes from it.
C15_BlankIsNoOp ==
  /\ \A i \in 1..Len(chatHistory) : ~FromBlank(chatHistory[i])
  /\ \A c \in Conns :
       /\ \A i \in 1..Len(out[c]) : ~FromBlank(out[c][i])
       /\ \A i \in 1..Len(wbuf[c]) : ~FromBlank(wbuf[c][i])

\* C15 (amended): an empty or white-space-only line never enters the
\* broadcast path, and the steps that handle it leave the history log, the
\* client list, the fan-outs and the output of every other session unchanged;
\* the sender alone is written a line, the time stamp with its username.
C15_BlankOnlyStampsSender ==
  [][\A c \in Conns :
       /\ (pc[c] = "read" /\ pc'[c] = "msg_bc_lock") => ~AllSpaces(line'[c])
       /\ (pc[c] = "read" /\ pc'[c] = "blank_write") =>
            UNCHANGED <<clients, chatHistory, fanout, out, wbuf>>
       /\ (pc[c] \in {"blank_write", "blank_flush"} /\ pc'[c] # pc[c]) =>
            /\ UNCHANGED <<clients, chatHistory, fanout>>
            /\ \A d \in Conns \ {c} : out'[d] = out[d] /\ wbuf'[d] = wbuf[d]
       /\ (pc[c] = "blank_write" /\ pc'[c] # pc[c]) =>
            /\ out'[c] = out[c]
            /\ wbuf'[c] = Append(wbuf[c], Msg("stamp", c, username[c], <<>>, nread[c]))
       /\ (pc[c] = "blank_flush" /\ pc'[c] # pc[c]) =>
            /\ out'[c] = out[c] \o wbuf[c]
            /\ wbuf'[c] = <<>>
    ]_vars

\* Two sessions are in their message loops, one has sent a blank line and has
\* its time stamp line, the other has nothing of it.
C15_Witness ==
  \E c, d \in Conns :
    /\ c # d
    /\ pc[c] = "read"
    /\ pc[d] = "read"
    /\ nread[c] = 1
    /\ Count(out[c], StampMsg(c)) = 1
    /\ Count(out[d], StampMsg(c)) = 0
    /\ \A i \in 1..Len(chatHistory) : chatHistory[i].kind = "join"

\* Where a handler is blocked reading a line from its connection
\* (scanner.Scan, main.go:142 and 117).
BlockedOnReadPcs == {"username", "read"}

\* C17: a handler that waits for a username line or for the next line of the
\* message loop does not hold clientsMu.
C17_NoLockAcrossRead ==
  \A c \in Conns : pc[c] \in BlockedOnReadPcs => lock # c

\* A handler waits for a line while another handler holds clientsMu.
C17_Witness ==
  \E c, d \in Conns :
    /\ c # d
    /\ pc[c] = "read"
    /\ lock = d

\* The handler that emitted m has not yet appended it to the history log.
AppendPending(m) ==
  CASE m.kind = "join" -> pc[m.from] \in {"join_app_lock", "join_app"}
    [] m.kind = "leave" -> pc[m.from] \in {"leave_app_lock", "leave_app"}
    [] m.kind = "chat" ->
         /\ m.seq = nread[m.from]
         /\ pc[m.from] \in {"echo_write", "echo_flush", "msg_app_lock", "msg_app"}
    [] OTHER -> FALSE

\* C16: when the write to a session fails during a fan-out, every other
\* recipient in the client list gets the message all the same, the message is
\* appended to the history log, and the fan-out changes neither the client list
\* nor where any other handler stands nor which connections are closed.
C16_WriteFailureTolerated ==
  /\ [](\A k \in 1..Len(fanout) :
          LET f == fanout[k] IN
          f.failed # {} =>
            /\ \A c \in f.rcpts \ f.failed : Count(out[c], f.msg) >= 1
            /\ ~AppendPending(f.msg) => Count(chatHistory, f.msg) >= 1)
  /\ [][\A c \in Conns :
          (pc[c] \in FanOutPcs /\ pc'[c] # pc[c]) =>
            /\ clients' = clients
            /\ closed' = closed
            /\ \A d \in Conns \ {c} : pc'[d] = pc[d]
       ]_vars

\* A chat line was fanned out to a session whose connection was closed and
\* to a session whose connection was open, which has the line; the line is
\* in the history log.
C16_Witness ==
  \E k \in 1..Len(fanout) :
    LET f == fanout[k] IN
    /\ f.msg.kind = "chat"
    /\ f.failed # {}
    /\ \E c \in f.rcpts \ f.failed : Count(out[c], f.msg) >= 1
    /\ \A c \in f.failed : Count(out[c], f.msg) = 0
    /\ Count(chatHistory, f.msg) = 1

\* The messages of kind chat in the sequence q, in order.
IsChat(m) == m.kind = "chat"
Chats(q) == SelectSeq(q, IsChat)

\* C19: two sessions that each got two chat lines live or by the direct echo
\* (neither by history replay) got them in the same order.
C19_ChatOrderAgreed ==
  \A a, b \in Conns :
    \A i, j \in 1..Len(Chats(out[a])) :
      LET m1 == Chats(out[a])[i]
          m2 == Chats(out[a])[j]
      IN (/\ i < j
          /\ m1 # m2
          /\ Count(replayed[a], m1) = 0 /\ Count(replayed[a], m2) = 0
          /\ Count(replayed[b], m1) = 0 /\ Count(replayed[b], m2) = 0) =>
           ~Before(out[b], m2, m1)

\* Where a handler holds clientsMu: between a Lock() and its Unlock().
CriticalPcs == {"reg", "join_bc", "join_app", "hist", "msg_bc", "msg_app",
                "rm", "leave_bc", "leave_app"}

\* C20: a handler holds clientsMu only inside a critical section, so it is
\* never at a Lock() while it holds the lock; every acquisition is followed
\* by a release; and every session whose message loop has ended, by /quit or
\* by the end of its stream, is eventually off the client list with its
\* connection closed and its handler finished.
C20_LockReleasedAndSessionsEnd ==
  /\ [](\A c \in Conns : lock = c <=> pc[c] \in CriticalPcs)
  /\ \A c \in Sessions : (lock = c) ~> (lock # c)
  /\ \A c \in Sessions :
       (pc[c] = "close") ~>
         (pc[c] = "done" /\ closed[c] /\ c \notin Range(clients))

\* Both sessions have ended, one of them after a chat line; the lock is free
\* and the client list empty.
C20_Witness ==
  \E c, d \in Conns :
    /\ c # d
    /\ pc[c] = "done"
    /\ pc[d] = "done"
    /\ nread[c] = 1
    /\ lock = 0
    /\ clients = <<>>

====
